---- MODULE Spec2Model ----
(***************************************************************************)
(* Model of the E-Redes telegraf input plugin (eredes.go).                 *)
(*                                                                         *)
(* Time is counted in hours: an instant is the number of hours since       *)
(* 2020-12-01 00:00 UTC, a duration is a number of hours.  A location maps *)
(* an instant to its UTC offset and has at most one offset transition.     *)
(* Strings are TLA+ strings; the request body is kept as a record of the   *)
(* fields the plugin interpolates into it.                                 *)
(***************************************************************************)
EXTENDS Integers, Sequences, FiniteSets, TLC

VARIABLES
    eredes,      \* the EREDES struct: the configuration fields the code reads
    configured,  \* success_status_codes as decoded from the configuration file
    loc,         \* the location of time.Now()
    clock,       \* the wall clock, an instant
    pc,          \* "new", "idle", "signIn", "gatherUsages", "usage", "emit"
    cycle,       \* number of Gather calls started
    token,       \* Gather's local variable token
    pending,     \* metrics of the parsed response not yet handed to AddFields
    accErrors,   \* acc.AddError calls of the current Gather call
    accFields,   \* acc.AddFields calls of the current Gather call
    gatherRet,   \* what the last Gather call returned
    signInReq,   \* the sign-in request of the current cycle
    signInResp,  \* the response it got
    usageReq,    \* the usage request of the current cycle
    usageResp,   \* the response it got
    parseRes,    \* what parser.Parse returned for it
    nows,        \* the two readings of time.Now() in gatherUsages
    usageCount   \* usage requests issued since start-up

vars == <<eredes, configured, loc, clock, pc, cycle, token, pending, accErrors,
          accFields, gatherRet, signInReq, signInResp, usageReq, usageResp,
          parseRes, nows, usageCount>>

None == "none"

---------------------------------------------------------------------------
(* Bounds *)

MaxCycles == 2
MaxMetrics == 2
MaxAdvance == 1

---------------------------------------------------------------------------
(* Program constants *)

eredesSignIn == "https://online.e-redes.pt/listeners/api.php/ms/auth/auth/signin"
eredesUsage == "https://online.e-redes.pt/listeners/api.php/ms/reading/data-usage/sysgrid/get"
twentyFourHours == 24
TestToken == "TOKEN1234567890"

---------------------------------------------------------------------------
(* time.Time: calendar arithmetic *)

\* 2021-01-10 12:00 UTC
ScenarioNow == 40 * 24 + 12

IsLeap(y) == (y % 4 = 0 /\ y % 100 # 0) \/ y % 400 = 0

DaysIn(y, m) ==
    IF m = 2 THEN (IF IsLeap(y) THEN 29 ELSE 28)
    ELSE IF m \in {4, 6, 9, 11} THEN 30 ELSE 31

RECURSIVE CivilFrom(_, _, _)
CivilFrom(y, m, n) ==
    IF n < DaysIn(y, m) THEN [year |-> y, month |-> m, day |-> n + 1]
    ELSE IF m = 12 THEN CivilFrom(y + 1, 1, n - DaysIn(y, m))
    ELSE CivilFrom(y, m + 1, n - DaysIn(y, m))

\* the calendar date of day number n, day 0 being 2020-12-01
Civil(n) == CivilFrom(2020, 12, n)

\* the UTC offset of the location at instant t
Offset(t) == IF t < loc.at THEN loc.before ELSE loc.after

\* the local day number of instant t
LocalDay(t) == (t + Offset(t)) \div 24

\* t.Year(), t.Month(), t.Day()
YearMonthDay(t) == Civil(LocalDay(t))

\* t.Add(d)
Add(t, d) == t + d

\* time.Date(year, month, day, hour, min, sec, nsec, loc), as wall-clock fields
Date(y, m, d, hh, mm, ss) ==
    [year |-> y, month |-> m, day |-> d, hour |-> hh, min |-> mm, sec |-> ss]

Pad2(n) == IF n < 10 THEN "0" \o ToString(n) ELSE ToString(n)

\* t.Format("2006-01-02 15:04:05")
Format(d) ==
    ToString(d.year) \o "-" \o Pad2(d.month) \o "-" \o Pad2(d.day) \o " "
        \o Pad2(d.hour) \o ":" \o Pad2(d.min) \o ":" \o Pad2(d.sec)

---------------------------------------------------------------------------
(* gatherUsages: the request window *)

\* ComputedStart without the extra day
ComputedStart_NoExtraDay(now, historyInterval) ==
    IF historyInterval = 0 \/ historyInterval < twentyFourHours
    THEN LET startDate == YearMonthDay(Add(now, -twentyFourHours))
         IN  Format(Date(startDate.year, startDate.month, startDate.day, 23, 59, 59))
    ELSE LET startDate == YearMonthDay(Add(now, -historyInterval))
         IN  Format(Date(startDate.year, startDate.month, startDate.day, 23, 59, 59))

\* the start date computed from the history interval
ComputedStart(now, historyInterval) ==
    IF historyInterval = 0 \/ historyInterval < twentyFourHours
    THEN LET startDate == YearMonthDay(Add(now, -twentyFourHours))
         IN  Format(Date(startDate.year, startDate.month, startDate.day, 23, 59, 59))
    ELSE LET startDate == YearMonthDay(Add(Add(now, -historyInterval), -twentyFourHours))
         IN  Format(Date(startDate.year, startDate.month, startDate.day, 23, 59, 59))

\* WindowStart that never looks at start_date
WindowStart_IgnoresStartDate(now, startDateCfg, historyInterval) ==
    ComputedStart(now, historyInterval)

\* start: the configured start date, or the computed one
WindowStart(now, startDateCfg, historyInterval) ==
    IF startDateCfg = "" THEN ComputedStart(now, historyInterval)
    ELSE startDateCfg

\* WindowEnd that goes back two days
WindowEnd_TwoDays(now) ==
    LET endDate == YearMonthDay(Add(Add(now, -twentyFourHours), -twentyFourHours))
    IN  Format(Date(endDate.year, endDate.month, endDate.day, 23, 59, 59))

\* end: the end of the day 24 hours before now
WindowEnd(now) ==
    LET endDate == YearMonthDay(Add(now, -twentyFourHours))
    IN  Format(Date(endDate.year, endDate.month, endDate.day, 23, 59, 59))

---------------------------------------------------------------------------
(* makeRequest *)

\* strings.Trim(s, "\n")
RECURSIVE TrimLeft(_)
TrimLeft(s) ==
    IF Len(s) > 0 /\ SubSeq(s, 1, 1) = "\n" THEN TrimLeft(SubSeq(s, 2, Len(s)))
    ELSE s

RECURSIVE TrimRight(_)
TrimRight(s) ==
    IF Len(s) > 0 /\ SubSeq(s, Len(s), Len(s)) = "\n"
    THEN TrimRight(SubSeq(s, 1, Len(s) - 1))
    ELSE s

Trim(s) == TrimRight(TrimLeft(s))

\* the Authorization header of the request; "" when the header is not set
AuthHeader(tok) == IF tok # "" THEN "Bearer " \o Trim(tok) ELSE ""

\* the request handed to client.Do
Request(url, requestBody, tok) ==
    [url |-> url, body |-> requestBody, Authorization |-> AuthHeader(tok)]

\* the loop over eredes.SuccessStatusCodes
responseHasSuccessCode(statusCode) == statusCode \in eredes.SuccessStatusCodes

\* the error makeRequest returns for a response, [kind |-> "nil"] when it
\* returns the body
makeRequestErr(resp) ==
    IF resp.transportErr THEN [kind |-> "transport", code |-> 0]
    ELSE IF ~responseHasSuccessCode(resp.status)
         THEN [kind |-> "status", code |-> resp.status]
         ELSE [kind |-> "nil", code |-> 0]

\* gjson.Get(response, "Body.Result.token").String()
gjsonToken(body) == IF body.hasToken THEN body.token ELSE ""

\* parser.Parse(response): the number of metrics, or an error
Parse(body) ==
    IF body.valid THEN [err |-> FALSE, metrics |-> body.readings]
    ELSE [err |-> TRUE, metrics |-> 0]

---------------------------------------------------------------------------
(* The environment: configurations, locations, responses *)

HistoryIntervals == {0, 23, 24, 168}
StartDates == {"", "2020-12-31 23:59:59"}
SignInURLs == {"", "http://localhost/signin"}
UsageURLs == {"", "http://localhost/usage"}
ConfiguredCodes == {{}, {201}}

Locations ==
    { [at |-> 0, before |-> 0, after |-> 0],
      [at |-> ScenarioNow - 34, before |-> 0, after |-> 1],
      [at |-> ScenarioNow - 34, before |-> 1, after |-> 0] }

ClockStarts == {ScenarioNow - 13, ScenarioNow}

\* the instants the clock may show: up to MaxAdvance hours after a start
ClockOK(t) == \E s \in ClockStarts : s <= t /\ t <= s + MaxAdvance

StatusCodes == {200, 201, 500}
Tokens == {"tok1", "\ntok2\n"}

SignInBodies ==
    {[hasToken |-> FALSE, token |-> ""]}
        \cup {[hasToken |-> TRUE, token |-> t] : t \in Tokens}

UsageBodies ==
    {[valid |-> FALSE, readings |-> 0]}
        \cup {[valid |-> TRUE, readings |-> n] : n \in 0..MaxMetrics}

Responses(bodies) ==
    {[transportErr |-> TRUE, status |-> 0, body |-> b] : b \in {CHOOSE x \in bodies : TRUE}}
        \cup {[transportErr |-> FALSE, status |-> c, body |-> b] :
                c \in StatusCodes, b \in bodies}

---------------------------------------------------------------------------
(* Construction *)

Init ==
    /\ \E hi \in HistoryIntervals, sd \in StartDates, su \in SignInURLs,
          uu \in UsageURLs, rt \in BOOLEAN, cc \in ConfiguredCodes :
          /\ eredes = [SignInURL |-> su, UsageURL |-> uu,
                       Username |-> "username", Password |-> "password",
                       Cpe |-> "cpe",
                       SuccessStatusCodes |-> cc, HistoryInterval |-> hi,
                       StartDate |-> sd, RunTestsOnly |-> rt]
          /\ configured = cc
    /\ loc \in Locations
    /\ clock \in ClockStarts
    /\ pc = "new"
    /\ cycle = 0
    /\ token = ""
    /\ pending = 0
    /\ accErrors = <<>>
    /\ accFields = 0
    /\ gatherRet = None
    /\ signInReq = <<>>
    /\ signInResp = <<>>
    /\ usageReq = <<>>
    /\ usageResp = <<>>
    /\ parseRes = <<>>
    /\ nows = <<>>
    /\ usageCount = 0

---------------------------------------------------------------------------
(* Operations *)

\* EREDES.Init
EredesInit ==
    /\ pc = "new"
    /\ eredes' = [eredes EXCEPT !.SuccessStatusCodes = {200}]
    /\ pc' = "idle"
    /\ UNCHANGED <<configured, loc, clock, cycle, token, pending, accErrors,
                   accFields, gatherRet, signInReq, signInResp, usageReq,
                   usageResp, parseRes, nows, usageCount>>

\* time passes
Tick ==
    /\ ClockOK(clock + 1)
    /\ clock' = clock + 1
    /\ UNCHANGED <<eredes, configured, loc, pc, cycle, token, pending,
                   accErrors, accFields, gatherRet, signInReq, signInResp,
                   usageReq, usageResp, parseRes, nows, usageCount>>

\* the URL signIn posts to
SignInEndpoint ==
    LET signInURL == eredes.SignInURL
    IN  IF signInURL = "" THEN eredesSignIn ELSE signInURL

\* the URL gatherUsages posts to
UsageEndpoint ==
    LET usageURL == IF eredes.UsageURL = "" THEN eredesUsage ELSE eredes.UsageURL
    IN  eredesUsage

\* UsageRequest that passes no token to makeRequest, as signIn does
UsageRequest_NoToken(now1, now2, tok) ==
    Request(UsageEndpoint,
            [cpe |-> eredes.Cpe, request_type |-> "3",
             start_date |-> WindowStart(now1, eredes.StartDate,
                                        eredes.HistoryInterval),
             end_date |-> WindowEnd(now2)],
            "")

\* the request gatherUsages builds from the two readings of time.Now()
UsageRequest(now1, now2, tok) ==
    Request(UsageEndpoint,
            [cpe |-> eredes.Cpe, request_type |-> "3",
             start_date |-> WindowStart(now1, eredes.StartDate,
                                        eredes.HistoryInterval),
             end_date |-> WindowEnd(now2)],
            tok)

\* Gather that calls gatherUsages whatever the token
CallsGatherUsages_Always(tok) == TRUE

\* what Gather does with the token signIn returned
CallsGatherUsages(tok) == tok # ""

\* Gather that returns on an error without reporting it
AddError_Dropped(errs, from, err) == errs

\* acc.AddError(fmt.Errorf(...)) in Gather
AddError(errs, from, err) == Append(errs, [from |-> from, err |-> err])

\* Gather is called with a fresh accumulator; signIn sends its request
GatherSignIn ==
    /\ pc = "idle"
    /\ cycle < MaxCycles
    /\ ~eredes.RunTestsOnly
    /\ cycle' = cycle + 1
    /\ token' = ""
    /\ pending' = 0
    /\ accErrors' = <<>>
    /\ accFields' = 0
    /\ gatherRet' = None
    /\ signInReq' = <<Request(SignInEndpoint,
                               [password |-> eredes.Password,
                                username |-> eredes.Username],
                               "")>>
    /\ signInResp' = <<>>
    /\ usageReq' = <<>>
    /\ usageResp' = <<>>
    /\ parseRes' = <<>>
    /\ nows' = <<>>
    /\ pc' = "signIn"
    /\ UNCHANGED <<eredes, configured, loc, clock, usageCount>>

\* Gather in test mode: signIn returns the fixed token, gatherUsages computes
\* the window and sends nothing
GatherTestsOnly ==
    /\ pc = "idle"
    /\ cycle < MaxCycles
    /\ eredes.RunTestsOnly
    /\ \E now2 \in {clock, clock + 1} :
          /\ ClockOK(now2)
          /\ nows' = <<clock, now2>>
          /\ clock' = now2
    /\ cycle' = cycle + 1
    /\ token' = TestToken
    /\ pending' = 0
    /\ accErrors' = <<>>
    /\ accFields' = 0
    /\ gatherRet' = "nil"
    /\ signInReq' = <<>>
    /\ signInResp' = <<>>
    /\ usageReq' = <<>>
    /\ usageResp' = <<>>
    /\ parseRes' = <<>>
    /\ pc' = "idle"
    /\ UNCHANGED <<eredes, configured, loc, usageCount>>

\* the sign-in response arrives: signIn returns, and Gather either reports the
\* error, returns for an empty token, or enters gatherUsages, which sends the
\* usage request
SignInResponse ==
    /\ pc = "signIn"
    /\ \E resp \in Responses(SignInBodies) :
          LET err == makeRequestErr(resp)
              tok == gjsonToken(resp.body)
          IN  /\ signInResp' = <<resp>>
              /\ IF err.kind # "nil"
                 THEN /\ accErrors' = AddError(accErrors, "signIn", err)
                      /\ gatherRet' = "nil"
                      /\ pc' = "idle"
                      /\ UNCHANGED <<token, usageReq, nows, clock, usageCount>>
                 ELSE IF ~CallsGatherUsages(tok)
                 THEN /\ token' = tok
                      /\ gatherRet' = "nil"
                      /\ pc' = "idle"
                      /\ UNCHANGED <<accErrors, usageReq, nows, clock, usageCount>>
                 ELSE \E now2 \in {clock, clock + 1} :
                      /\ ClockOK(now2)
                      /\ token' = tok
                      /\ nows' = <<clock, now2>>
                      /\ clock' = now2
                      /\ usageReq' = <<UsageRequest(clock, now2, tok)>>
                      /\ usageCount' = usageCount + 1
                      /\ pc' = "usage"
                      /\ UNCHANGED <<accErrors, gatherRet>>
    /\ UNCHANGED <<eredes, configured, loc, cycle, pending, accFields,
                   signInReq, usageResp, parseRes>>

\* the usage response arrives: gatherUsages parses it; an error goes back to
\* Gather, which reports it
UsageResponse ==
    /\ pc = "usage"
    /\ \E resp \in Responses(UsageBodies) :
          LET err == makeRequestErr(resp)
              res == Parse(resp.body)
          IN  /\ usageResp' = <<resp>>
              /\ IF err.kind # "nil"
                 THEN /\ accErrors' = AddError(accErrors, "gatherUsages", err)
                      /\ gatherRet' = "nil"
                      /\ pc' = "idle"
                      /\ UNCHANGED <<parseRes, pending>>
                 ELSE IF res.err
                 THEN /\ parseRes' = <<res>>
                      /\ accErrors' = AddError(accErrors, "gatherUsages",
                                           [kind |-> "parse", code |-> 0])
                      /\ gatherRet' = "nil"
                      /\ pc' = "idle"
                      /\ UNCHANGED pending
                 ELSE IF res.metrics > 0
                 THEN /\ parseRes' = <<res>>
                      /\ pending' = res.metrics
                      /\ pc' = "emit"
                      /\ UNCHANGED <<accErrors, gatherRet>>
                 ELSE /\ parseRes' = <<res>>
                      /\ gatherRet' = "nil"
                      /\ pc' = "idle"
                      /\ UNCHANGED <<accErrors, pending>>
    /\ UNCHANGED <<eredes, configured, loc, clock, cycle, token, accFields,
                   signInReq, signInResp, usageReq, nows, usageCount>>

\* one iteration of the loop over the metrics; after the last one
\* gatherUsages and Gather return nil
AddFields ==
    /\ pc = "emit"
    /\ pending > 0
    /\ accFields' = accFields + 1
    /\ pending' = pending - 1
    /\ IF pending = 1
       THEN /\ gatherRet' = "nil"
            /\ pc' = "idle"
       ELSE UNCHANGED <<gatherRet, pc>>
    /\ UNCHANGED <<eredes, configured, loc, clock, cycle, token, accErrors,
                   signInReq, signInResp, usageReq, usageResp, parseRes, nows,
                   usageCount>>

Next ==
    \/ EredesInit
    \/ Tick
    \/ GatherSignIn
    \/ GatherTestsOnly
    \/ SignInResponse
    \/ UsageResponse
    \/ AddFields

Spec == Init /\ [][Next]_vars

TypeOK ==
    /\ pc \in {"new", "idle", "signIn", "usage", "emit"}
    /\ cycle \in 0..MaxCycles
    /\ pending \in 0..MaxMetrics
    /\ accFields \in 0..MaxMetrics
    /\ Len(accErrors) <= 1
    /\ usageCount <= cycle

---------------------------------------------------------------------------
(* Properties *)

\* 23:59:59 of day number n, formatted
DayEnd(n) ==
    LET c == Civil(n) IN Format(Date(c.year, c.month, c.day, 23, 59, 59))

\* the wall-clock reading of instant t, in hours
Wall(t) == t + Offset(t)

\* the location has the same UTC offset at now - 24h and at now
FixedOffset(now) == Offset(now - 24) = Offset(now)

UsageSent == usageReq # <<>>

\* C1: with an empty start_date and one value of now, a history_interval
\* below 24h gives the same start and end as history_interval = 24h.
C1_ClampingInvariant ==
    (/\ UsageSent
     /\ eredes.StartDate = ""
     /\ eredes.HistoryInterval < 24
     /\ nows[1] = nows[2])
    => /\ usageReq[1].body.start_date = WindowStart(nows[1], "", 24)
       /\ usageReq[1].body.end_date = WindowEnd(nows[2])

\* C2 as stated: the end date never falls on the day of now nor on the day
\* before it; it is 23:59:59 of a day at least two days before now.
C2_EndAtLeastTwoDaysBack ==
    UsageSent =>
        /\ usageReq[1].body.end_date # DayEnd(LocalDay(nows[2]))
        /\ usageReq[1].body.end_date # DayEnd(LocalDay(nows[2]) - 1)
        /\ \E k \in 2..9 : usageReq[1].body.end_date = DayEnd(LocalDay(nows[2]) - k)

\* C2 amended: where the UTC offset is the same at now - 24h and at now, the
\* end date is 23:59:59 of the calendar day immediately before the day of
\* now, for every history_interval and start_date; it is never the day of
\* now and never an earlier day.
C2_EndIsYesterday ==
    (UsageSent /\ FixedOffset(nows[2])) =>
        /\ usageReq[1].body.end_date = DayEnd(LocalDay(nows[2]) - 1)
        /\ usageReq[1].body.end_date # DayEnd(LocalDay(nows[2]))
        /\ usageReq[1].body.end_date # DayEnd(LocalDay(nows[2]) - 2)

C2_Witness ==
    /\ UsageSent
    /\ FixedOffset(nows[2])
    /\ Wall(nows[2]) % 24 = 0
    /\ eredes.StartDate # ""
    /\ usageReq[1].body.end_date = "2021-01-09 23:59:59"

\* the scenario: now reads 2021-01-10 12:00:00, history_interval = 168h,
\* no start_date
Scenario ==
    /\ UsageSent
    /\ Wall(nows[1]) = ScenarioNow
    /\ Wall(nows[2]) = ScenarioNow
    /\ eredes.HistoryInterval = 168
    /\ eredes.StartDate = ""

\* C3 as stated: the scenario requests end = 2021-01-08 23:59:59 and
\* start = 2021-01-01 23:59:59.
C3_ScenarioAsStated ==
    Scenario =>
        /\ usageReq[1].body.end_date = "2021-01-08 23:59:59"
        /\ usageReq[1].body.start_date = "2021-01-01 23:59:59"

\* C3 amended: the scenario requests end = 2021-01-09 23:59:59 and
\* start = 2021-01-02 23:59:59.
C3_ScenarioWindow ==
    Scenario =>
        /\ usageReq[1].body.end_date = "2021-01-09 23:59:59"
        /\ usageReq[1].body.start_date = "2021-01-02 23:59:59"

C3_Witness == Scenario /\ pc = "usage"

C5_UsageURLOverride ==
    UsageSent =>
        usageReq[1].url =
            IF eredes.UsageURL # "" THEN eredes.UsageURL ELSE eredesUsage

\* the status codes the configuration accepts
Accepted == IF configured = {} THEN {200} ELSE configured

SignInErrors == {i \in DOMAIN accErrors : accErrors[i].from = "signIn"}

\* C6: after Init, a response succeeds exactly when its status code is in
\* the configured success_status_codes (200 when none is configured), and
\* otherwise the error carries the status code.
C6_ConfiguredStatusCodes ==
    (signInResp # <<>> /\ ~signInResp[1].transportErr) =>
        /\ (SignInErrors = {}) <=> (signInResp[1].status \in Accepted)
        /\ \A i \in SignInErrors :
              /\ accErrors[i].err.kind = "status"
              /\ accErrors[i].err.code = signInResp[1].status

\* the status codes in force when the requests of the cycle are made
Rejected(resp) == resp.transportErr \/ resp.status \notin eredes.SuccessStatusCodes

\* sign-in failed, the usage request failed, or the parser returned an error
CycleFailed ==
    \/ signInResp # <<>> /\ Rejected(signInResp[1])
    \/ usageResp # <<>> /\ Rejected(usageResp[1])
    \/ usageResp # <<>> /\ ~Rejected(usageResp[1]) /\ ~usageResp[1].body.valid

\* C7: a cycle that fails in sign-in, in the usage request or in the parser
\* gives the accumulator exactly one error and no AddFields call, and Gather
\* returns nil.
C7_FailedCycle ==
    CycleFailed =>
        /\ Len(accErrors) = 1
        /\ accFields = 0
        /\ pending = 0
        /\ pc = "idle"
        /\ gatherRet = "nil"

C7_Witness ==
    /\ CycleFailed
    /\ usageResp # <<>>
    /\ ~Rejected(usageResp[1])
    /\ Len(accErrors) = 1
    /\ cycle = 2

\* the token of the sign-in response of the current cycle
CycleToken == gjsonToken(signInResp[1].body)

\* C8: a step that sends a usage request happens in a cycle whose sign-in
\* request was sent and answered successfully before, and the request carries
\* "Bearer " and that answer's token (newlines trimmed at both ends); a step
\* that calls AddFields happens after the cycle's usage request was answered
\* and parsed without error.
C8_Sequential ==
    [][/\ (usageReq' # <<>> /\ usageReq' # usageReq) =>
            /\ signInReq # <<>>
            /\ signInReq' = signInReq
            /\ pc = "signIn"
            /\ signInResp' # <<>>
            /\ ~Rejected(signInResp'[1])
            /\ usageReq'[1].Authorization
                  = "Bearer " \o Trim(gjsonToken(signInResp'[1].body))
       /\ (accFields' > accFields) =>
            /\ usageReq # <<>>
            /\ usageResp # <<>>
            /\ ~Rejected(usageResp[1])
            /\ parseRes # <<>>
            /\ ~parseRes[1].err
            /\ usageReq' = usageReq
      ]_vars

C8_Witness ==
    /\ cycle = 2
    /\ accFields = 2
    /\ usageReq # <<>>
    /\ usageReq[1].Authorization = "Bearer tok2"
    /\ CycleToken = "\ntok2\n"

\* C9: with a start_date configured, the first usage request after start-up
\* has start = start_date and every later one has the start computed from
\* history_interval.
C9_StartDateFirstRequestOnly ==
    (UsageSent /\ eredes.StartDate # "") =>
        /\ usageCount = 1 => usageReq[1].body.start_date = eredes.StartDate
        /\ usageCount > 1 =>
              usageReq[1].body.start_date
                  = ComputedStart(nows[1], eredes.HistoryInterval)

\* C10: when sign-in succeeds with an empty token, the cycle sends no usage
\* request, calls AddFields and AddError not at all and returns nil; a usage
\* request is sent only for a non-empty token.
C10_EmptyToken ==
    /\ (signInResp # <<>> /\ ~Rejected(signInResp[1]) /\ CycleToken = "") =>
          /\ usageReq = <<>>
          /\ accFields = 0
          /\ accErrors = <<>>
          /\ pc = "idle"
          /\ gatherRet = "nil"
    /\ UsageSent => (token # "" /\ CycleToken # "")

C10_Witness ==
    /\ signInResp # <<>>
    /\ ~Rejected(signInResp[1])
    /\ CycleToken = ""
    /\ usageReq = <<>>
    /\ pc = "idle"

====
